---- MODULE Spec2Model ----
(***************************************************************************)
(* Model of the waveform pipeline of bf_visualize:                         *)
(*   utils/load_data.py        load_data_info, load_waveforms, load_ps_info*)
(*   utils/process_waveform.py parepare_reference_time, slice_waveform,    *)
(*                             post_process, select_based_on_snr,          *)
(*                             post_process_ps, select_based_on_snr_ps     *)
(*   plot_p_aligned_by_p.py, plot_rank_by_index.py   main (cache or run)   *)
(*                                                                         *)
(* Conventions.                                                            *)
(*  - Python None is the record None; a present value x is Some(x).        *)
(*  - A dict is a TLA+ function; its iteration order is the order of       *)
(*    KeyOrder restricted to its domain (rows of the csv file).            *)
(*  - Time is counted in whole sample intervals: a UTCDateTime is an       *)
(*    integer, every trace has one sample per time unit.                   *)
(*  - A Trace is [site, starttime, data, scale, band]: sample i has the    *)
(*    amplitude data[i] / scale (exact rational arithmetic), site names    *)
(*    the place that allocated the object, band the band-pass applied.     *)
(*  - A raised exception is Some([kind, key]) in err; the variable that    *)
(*    would have received the return value keeps None.                     *)
(***************************************************************************)
EXTENDS Integers, Sequences, FiniteSets, TLC

VARIABLES pc, config, data_infos, raw_waveforms, reference_times,
          sliced_waveforms, ps_info, waveforms_with_stream, waveforms,
          err, old, disk, infos_group_by_station

vars == <<pc, config, data_infos, raw_waveforms, reference_times,
          sliced_waveforms, ps_info, waveforms_with_stream, waveforms,
          err, old, disk, infos_group_by_station>>

\* the files and the grouping belong to the drivers' main
io == <<disk, infos_group_by_station>>

(***************************************************************************)
(* Bounds of the model                                                     *)
(***************************************************************************)
\* arrival times are drawn from 1..MaxTime
MaxTime == 2

(***************************************************************************)
(* Values                                                                  *)
(***************************************************************************)
None == [some |-> FALSE]
Some(x) == [some |-> TRUE, val |-> x]

\* the (event_id, station) keys, in csv row order
KeyOrder == << <<"e1", "FONI">>, <<"e2", "FONI">> >>
Keys == {KeyOrder[i] : i \in 1..Len(KeyOrder)}

\* the keys of dict d in iteration order
RECURSIVE KeysFrom(_, _)
KeysFrom(d, i) ==
    IF i > Len(KeyOrder) THEN <<>>
    ELSE IF KeyOrder[i] \in DOMAIN d
         THEN <<KeyOrder[i]>> \o KeysFrom(d, i + 1)
         ELSE KeysFrom(d, i + 1)
KeysOf(d) == KeysFrom(d, 1)

EmptyDict == [k \in {} |-> None]

\* no file on disk
NoDisk == [csv |-> <<>>, asdf |-> EmptyDict, ps_filter |-> <<>>, cache |-> None]

Exc(kind, key) == Some([kind |-> kind, key |-> key])
NoKey == <<"", "">>

(***************************************************************************)
(* load_data.py: DataInfo                                                  *)
(***************************************************************************)
OptTimes == {None} \cup {Some(t) : t \in 1..MaxTime}

DataInfo(key, ptime, stime, pstime, dist) ==
    [event_id |-> key[1], station |-> key[2], origin_time |-> 0,
     ptime |-> ptime, stime |-> stime, pstime |-> pstime, dist |-> dist]

(***************************************************************************)
(* process_waveform.py: parepare_reference_time                            *)
(***************************************************************************)
RefTypes == {"P", "S", "PS", "SP", "p", ""}

parepare_reference_time_noraise(ref_type, data_info) ==
    IF ref_type = "P"
    THEN [ret |-> Some([key \in DOMAIN data_info |-> data_info[key].ptime]), err |-> None]
    ELSE IF ref_type = "PS"
    THEN [ret |-> Some([key \in DOMAIN data_info |-> data_info[key].pstime]), err |-> None]
    ELSE IF ref_type = "S"
    THEN [ret |-> Some([key \in DOMAIN data_info |-> data_info[key].stime]), err |-> None]
    ELSE [ret |-> Some(EmptyDict), err |-> None]

parepare_reference_time_swapped(ref_type, data_info) ==
    IF ref_type = "P"
    THEN [ret |-> Some([key \in DOMAIN data_info |-> data_info[key].ptime]), err |-> None]
    ELSE IF ref_type = "PS"
    THEN [ret |-> Some([key \in DOMAIN data_info |-> data_info[key].stime]), err |-> None]
    ELSE IF ref_type = "S"
    THEN [ret |-> Some([key \in DOMAIN data_info |-> data_info[key].pstime]), err |-> None]
    ELSE [ret |-> None, err |-> Exc("ref type must be P, S, or PS.", NoKey)]

parepare_reference_time(ref_type, data_info) ==
    IF ref_type = "P"
    THEN [ret |-> Some([key \in DOMAIN data_info |-> data_info[key].ptime]), err |-> None]
    ELSE IF ref_type = "PS"
    THEN [ret |-> Some([key \in DOMAIN data_info |-> data_info[key].pstime]), err |-> None]
    ELSE IF ref_type = "S"
    THEN [ret |-> Some([key \in DOMAIN data_info |-> data_info[key].stime]), err |-> None]
    ELSE [ret |-> None, err |-> Exc("ref type must be P, S, or PS.", NoKey)]

(***************************************************************************)
(* Specification of the Reference-Time Resolver on its own: any            *)
(* ArrivalRecord map over a subset of the keys, any selector.              *)
(***************************************************************************)
DataInfoMaps ==
    UNION {[ks -> OptTimes \X OptTimes \X OptTimes] : ks \in SUBSET Keys}

MkDataInfos(m) ==
    [key \in DOMAIN m |-> DataInfo(key, m[key][1], m[key][2], m[key][3], 1)]

InitResolver ==
    /\ disk = NoDisk
    /\ infos_group_by_station = EmptyDict
    /\ pc = "resolver_ready"
    /\ \E m \in DataInfoMaps : data_infos = MkDataInfos(m)
    /\ \E r \in RefTypes : config = [ref_phase |-> r]
    /\ raw_waveforms = EmptyDict
    /\ reference_times = None
    /\ sliced_waveforms = None
    /\ ps_info = EmptyDict
    /\ waveforms_with_stream = None
    /\ waveforms = None
    /\ err = None
    /\ old = None

CallResolver ==
    /\ UNCHANGED io
    /\ pc = "resolver_ready"
    /\ \E r \in {parepare_reference_time(config.ref_phase, data_infos)} :
          /\ reference_times' = r.ret
          /\ err' = r.err
    /\ pc' = "resolver_done"
    /\ old' = Some([data_infos |-> data_infos])
    /\ UNCHANGED <<config, data_infos, raw_waveforms, sliced_waveforms,
                   ps_info, waveforms_with_stream, waveforms>>

NextResolver == CallResolver

SpecResolver == InitResolver /\ [][NextResolver]_vars

\* C4: for a selector in {P, S, PS} the resolver returns a map over exactly
\* the keys of the ArrivalRecord map, and each value is that record's ptime,
\* stime or pstime field, None passed through, and no error is raised.
C4_ResolverField ==
    (pc = "resolver_done" /\ config.ref_phase \in {"P", "S", "PS"}) =>
        /\ err = None
        /\ reference_times.some
        /\ DOMAIN reference_times.val = DOMAIN data_infos
        /\ \A key \in DOMAIN data_infos :
              reference_times.val[key] =
                 CASE config.ref_phase = "P" -> data_infos[key].ptime
                   [] config.ref_phase = "S" -> data_infos[key].stime
                   [] config.ref_phase = "PS" -> data_infos[key].pstime

\* a PS call on a record with a PS time, an S time different from it and no P time
C4_Witness ==
    /\ pc = "resolver_done"
    /\ config.ref_phase = "PS"
    /\ \E key \in DOMAIN data_infos :
          /\ data_infos[key].ptime = None
          /\ data_infos[key].pstime # None
          /\ data_infos[key].stime # None
          /\ data_infos[key].stime # data_infos[key].pstime
          /\ reference_times.val[key] = data_infos[key].pstime

\* C10: for every selector other than P, S and PS the resolver raises and
\* returns no map, whatever the ArrivalRecord map holds (the empty map too).
C10_ResolverRejects ==
    (pc = "resolver_done" /\ config.ref_phase \notin {"P", "S", "PS"}) =>
        /\ err # None
        /\ reference_times = None

\* a rejected selector on the empty ArrivalRecord map
C10_Witness ==
    /\ pc = "resolver_done"
    /\ config.ref_phase = "SP"
    /\ DOMAIN data_infos = {}
    /\ err # None

C10_WitnessNonEmpty ==
    /\ pc = "resolver_done"
    /\ config.ref_phase = "p"
    /\ DOMAIN data_infos = Keys
    /\ err # None

(***************************************************************************)
(* obspy Trace and Stream, as far as the pipeline uses them                *)
(***************************************************************************)
Max(a, b) == IF a >= b THEN a ELSE b
Min(a, b) == IF a <= b THEN a ELSE b

Trace(site, starttime, data) ==
    [site |-> site, starttime |-> starttime, data |-> data, scale |-> 1,
     band |-> <<0, 0>>]

\* stats.endtime: the time of the last sample (the start time when npts = 0)
EndTime(tr) ==
    IF Len(tr.data) = 0 THEN tr.starttime ELSE tr.starttime + Len(tr.data) - 1

\* Stream.copy(): a deep copy, every trace a new object with equal contents
StreamCopy(stream, site) ==
    [i \in 1..Len(stream) |-> [stream[i] EXCEPT !.site = site]]

\* Trace.slice(starttime, endtime): a new trace holding the samples with
\* starttime <= t <= endtime; nothing is padded, the source trace is kept
TraceSlice(tr, starttime, endtime, site) ==
    LET lo == Max(starttime, tr.starttime)
        hi == Min(endtime, EndTime(tr))
    IN IF Len(tr.data) = 0 \/ lo > hi
       THEN [tr EXCEPT !.site = site, !.data = <<>>]
       ELSE [tr EXCEPT !.site = site, !.starttime = lo,
                       !.data = SubSeq(tr.data, lo - tr.starttime + 1,
                                       hi - tr.starttime + 1)]

\* Stream.slice(starttime, endtime): slices every trace and drops the traces
\* left without samples (keep_empty_traces=False)
RECURSIVE StreamSliceFrom(_, _, _, _, _)
StreamSliceFrom(stream, i, starttime, endtime, site) ==
    IF i > Len(stream) THEN <<>>
    ELSE LET tr == TraceSlice(stream[i], starttime, endtime, site)
         IN (IF Len(tr.data) = 0 THEN <<>> ELSE <<tr>>)
            \o StreamSliceFrom(stream, i + 1, starttime, endtime, site)
StreamSlice(stream, starttime, endtime, site) ==
    StreamSliceFrom(stream, 1, starttime, endtime, site)

\* Stream.trim(starttime, endtime): the same cut made in place
StreamTrim(stream, starttime, endtime) ==
    [i \in 1..Len(stream) |->
        TraceSlice(stream[i], starttime, endtime, stream[i].site)]

(***************************************************************************)
(* process_waveform.py: slice_waveform                                     *)
(* The loop state is [res, err, waves]: the result dict built so far, the  *)
(* exception raised, and the caller's waveform dict as the call leaves it. *)
(***************************************************************************)
slice_one_inplace(acc, key, refs, left_win, right_win) ==
    IF key \notin DOMAIN refs
    THEN [acc EXCEPT !.err = Exc("KeyError", key)]
    ELSE LET stream == acc.waves[key]
             ref == refs[key]
         IN IF ref = None THEN acc
            ELSE IF Len(stream) = 0
            THEN [acc EXCEPT !.err = Exc("IndexError", key)]
            ELSE IF \/ stream[1].starttime > ref.val - left_win
                    \/ EndTime(stream[1]) < ref.val + right_win
            THEN [acc EXCEPT !.err = Exc("has range, but asked", key)]
            ELSE LET cut == StreamTrim(stream, ref.val - left_win,
                                       ref.val + right_win)
                 IN [acc EXCEPT !.res = [k \in DOMAIN acc.res \cup {key} |->
                                            IF k = key THEN cut ELSE acc.res[k]],
                                !.waves[key] = cut]

\* lines 52-59: one iteration of the loop for `key`
slice_one(acc, key, refs, left_win, right_win) ==
    IF key \notin DOMAIN refs
    THEN [acc EXCEPT !.err = Exc("KeyError", key)]
    ELSE LET stream == StreamCopy(acc.waves[key], "slice_waveform")
             ref == refs[key]
         IN IF ref = None THEN acc
            ELSE IF Len(stream) = 0
            THEN [acc EXCEPT !.err = Exc("IndexError", key)]
            ELSE IF \/ stream[1].starttime > ref.val - left_win
                    \/ EndTime(stream[1]) < ref.val + right_win
            THEN [acc EXCEPT !.err = Exc("has range, but asked", key)]
            ELSE [acc EXCEPT !.res = [k \in DOMAIN acc.res \cup {key} |->
                     IF k = key
                     THEN StreamSlice(stream, ref.val - left_win,
                                      ref.val + right_win, "slice_waveform")
                     ELSE acc.res[k]]]

RECURSIVE slice_loop(_, _, _, _, _, _)
slice_loop(acc, keys, i, refs, left_win, right_win) ==
    IF i > Len(keys) \/ acc.err # None THEN acc
    ELSE slice_loop(slice_one(acc, keys[i], refs, left_win, right_win),
                    keys, i + 1, refs, left_win, right_win)

\* [ret, err, waves]: the returned dict (None when it raises), the exception,
\* and the input dict after the call
slice_waveform(waves, refs, left_win, right_win) ==
    LET acc == slice_loop([res |-> EmptyDict, err |-> None, waves |-> waves],
                          KeysOf(waves), 1, refs, left_win, right_win)
    IN [ret |-> IF acc.err = None THEN Some(acc.res) ELSE None,
        err |-> acc.err, waves |-> acc.waves]

(***************************************************************************)
(* Specification of the Window Slicer on its own: any waveform dict over a *)
(* subset of the keys, a reference time (or None) for each of its keys,    *)
(* any window.                                                             *)
(***************************************************************************)
\* a raw trace starts at 0 or 1 and holds 1..MaxLen samples
MaxLen == 2
\* a waveform dict holds at most MaxTraces traces, all its streams together
MaxTraces == 3
\* left_win and right_win are drawn from 0..MaxWin
MaxWin == 1

\* the samples of a raw trace tell their time: the sample at time t is t + 1
Ramp(starttime, n) == [i \in 1..n |-> starttime + i]

SliceTraces ==
    {Trace("raw_recording", st, Ramp(st, n)) : st \in {0, 1}, n \in 1..MaxLen}

\* the dicts over the keys KeyOrder[i], KeyOrder[i+1], ... (any subset of
\* them) whose streams hold one or more of `traces`, at most `budget` in all
RECURSIVE DictsFrom(_, _, _)
DictsFrom(i, budget, traces) ==
    IF i > Len(KeyOrder) THEN {EmptyDict}
    ELSE DictsFrom(i + 1, budget, traces)
         \cup UNION {{(KeyOrder[i] :> stream) @@ d :
                        stream \in [1..n -> traces],
                        d \in DictsFrom(i + 1, budget - n, traces)} :
                     n \in 1..budget}

InitSlice ==
    /\ disk = NoDisk
    /\ infos_group_by_station = EmptyDict
    /\ pc = "slice_ready"
    /\ raw_waveforms \in DictsFrom(1, MaxTraces, SliceTraces)
    /\ \E refs \in [DOMAIN raw_waveforms -> OptTimes] :
          reference_times = Some(refs)
    /\ \E l \in 0..MaxWin, r \in 0..MaxWin :
          config = [left_win |-> l, right_win |-> r]
    /\ data_infos = EmptyDict
    /\ sliced_waveforms = None
    /\ ps_info = EmptyDict
    /\ waveforms_with_stream = None
    /\ waveforms = None
    /\ err = None
    /\ old = None

CallSlice ==
    /\ UNCHANGED io
    /\ pc = "slice_ready"
    /\ \E r \in {slice_waveform(raw_waveforms, reference_times.val,
                                config.left_win, config.right_win)} :
          /\ sliced_waveforms' = r.ret
          /\ err' = r.err
          /\ raw_waveforms' = r.waves
    /\ pc' = "slice_done"
    /\ old' = Some([waves |-> raw_waveforms, refs |-> reference_times])
    /\ UNCHANGED <<config, data_infos, reference_times, ps_info,
                   waveforms_with_stream, waveforms>>

NextSlice == CallSlice

SpecSlice == InitSlice /\ [][NextSlice]_vars

\* the trace holds a sample at every time of [lo, hi]
Covers(tr, lo, hi) ==
    Len(tr.data) > 0 /\ tr.starttime <= lo /\ EndTime(tr) >= hi

\* the trace holds exactly the samples of [lo, hi]
CoversExactly(tr, lo, hi) ==
    Len(tr.data) > 0 /\ tr.starttime = lo /\ EndTime(tr) = hi

WinLo(key) == old.val.refs.val[key].val - config.left_win
WinHi(key) == old.val.refs.val[key].val + config.right_win

\* C1: a key with a reference time, one of whose channels does not cover
\* [ref - left_win, ref + right_win], makes the call raise and return no
\* dict; a returned dict never holds a channel shorter than the window.
C1_NeverTruncates ==
    pc = "slice_done" =>
        \A key \in DOMAIN old.val.waves :
            old.val.refs.val[key] # None =>
                /\ (\E i \in 1..Len(old.val.waves[key]) :
                       ~Covers(old.val.waves[key][i], WinLo(key), WinHi(key)))
                   => (err # None /\ sliced_waveforms = None)
                /\ (sliced_waveforms # None /\ key \in DOMAIN sliced_waveforms.val)
                   => \A i \in 1..Len(sliced_waveforms.val[key]) :
                         Len(sliced_waveforms.val[key][i].data)
                            >= config.left_win + config.right_win + 1

\* what the code does check: the first channel of the stream
C1_FirstChannelChecked ==
    pc = "slice_done" =>
        \A key \in DOMAIN old.val.waves :
            (old.val.refs.val[key] # None
               /\ ~Covers(old.val.waves[key][1], WinLo(key), WinHi(key)))
            => (err # None /\ sliced_waveforms = None)

\* C3: when the call raises nothing, the returned dict holds exactly the
\* keys with a reference time, and each of its waveforms covers exactly
\* [ref - left_win, ref + right_win].
C3_KeysAndWindow ==
    (pc = "slice_done" /\ err = None) =>
        /\ sliced_waveforms # None
        /\ DOMAIN sliced_waveforms.val =
              {key \in DOMAIN old.val.waves : old.val.refs.val[key] # None}
        /\ \A key \in DOMAIN sliced_waveforms.val :
              /\ Len(sliced_waveforms.val[key]) = Len(old.val.waves[key])
              /\ \A i \in 1..Len(sliced_waveforms.val[key]) :
                    CoversExactly(sliced_waveforms.val[key][i],
                                  WinLo(key), WinHi(key))

\* the part of C3 that does not rest on the coverage check
C3_KeySet ==
    (pc = "slice_done" /\ err = None) =>
        /\ sliced_waveforms # None
        /\ DOMAIN sliced_waveforms.val =
              {key \in DOMAIN old.val.waves : old.val.refs.val[key] # None}

\* C9: whether the call returns or raises, the caller's waveform dict (every
\* trace's samples, start time and end time) and the reference-time dict
\* are what they were before the call.
C9_InputUnchanged ==
    pc = "slice_done" =>
        /\ raw_waveforms = old.val.waves
        /\ reference_times = old.val.refs

\* a call that returns a stream cut shorter than the caller's stream
C9_Witness ==
    /\ pc = "slice_done"
    /\ err = None
    /\ \E key \in DOMAIN sliced_waveforms.val :
          /\ Len(sliced_waveforms.val[key][1].data) < Len(old.val.waves[key][1].data)
          /\ raw_waveforms[key] = old.val.waves[key]

\* a call that raises after it has cut an earlier key's stream
C9_WitnessRaise ==
    /\ pc = "slice_done"
    /\ err # None
    /\ DOMAIN old.val.waves = Keys
    /\ err.val.key = KeyOrder[2]
    /\ old.val.refs.val[KeyOrder[1]] # None
    /\ Len(old.val.waves[KeyOrder[1]][1].data)
          > config.left_win + config.right_win + 1

(***************************************************************************)
(* process_waveform.py: select_based_on_snr                                *)
(* An SNR is [kind, num, den]: "fin" is the float num / den (den > 0),     *)
(* "inf" the float inf (x / 0 with x > 0), "nan" the float nan (0 / 0, or  *)
(* the mean of an empty window).                                           *)
(***************************************************************************)
Abs(x) == IF x < 0 THEN -x ELSE x

RECURSIVE SumSq(_)
SumSq(data) ==
    IF Len(data) = 0 THEN 0 ELSE data[1] * data[1] + SumSq(Tail(data))

RECURSIVE MaxAbs(_)
MaxAbs(data) ==
    IF Len(data) = 0 THEN 0 ELSE Max(Abs(data[1]), MaxAbs(Tail(data)))

SnrFin(num, den) == [kind |-> "fin", num |-> num, den |-> den]
SnrInf == [kind |-> "inf", num |-> 1, den |-> 0]
SnrNan == [kind |-> "nan", num |-> 0, den |-> 0]

\* lines 106-113: np.mean(signal**2) / np.mean(noise**2) of one trace; the
\* scale of the trace divides both powers and drops out of the ratio
TraceSnr(trace, noise_win, signal_win) ==
    LET start_time == trace.starttime
        noise == TraceSlice(trace, start_time + noise_win[1],
                            start_time + noise_win[2], trace.site).data
        signal == TraceSlice(trace, start_time + signal_win[1],
                             start_time + signal_win[2], trace.site).data
    IN IF Len(noise) = 0 \/ Len(signal) = 0 THEN SnrNan
       ELSE IF SumSq(noise) = 0
       THEN (IF SumSq(signal) = 0 THEN SnrNan ELSE SnrInf)
       ELSE SnrFin(SumSq(signal) * Len(noise), SumSq(noise) * Len(signal))

\* the float comparison a > b (False when either side is nan)
SnrGt(a, b) ==
    IF a.kind = "nan" \/ b.kind = "nan" THEN FALSE
    ELSE IF a.kind = "inf" THEN b.kind = "fin"
    ELSE IF b.kind = "inf" THEN FALSE
    ELSE a.num * b.den > b.num * a.den

\* the float comparison a >= b
SnrGe(a, b) ==
    IF a.kind = "nan" \/ b.kind = "nan" THEN FALSE
    ELSE IF a.kind = "inf" THEN TRUE
    ELSE IF b.kind = "inf" THEN FALSE
    ELSE a.num * b.den >= b.num * a.den

\* the float comparison a < min_snr, min_snr a whole number
SnrLt(a, min_snr) ==
    a.kind = "fin" /\ a.num < min_snr * a.den

\* Trace.normalize(): divides the samples by the largest absolute amplitude,
\* in place; a trace of zeros is left as it is
Normalize(trace) ==
    IF MaxAbs(trace.data) = 0 THEN trace
    ELSE [trace EXCEPT !.scale = MaxAbs(trace.data)]

\* the loop test with >= in the place of >
best_trace_ge(snr, maxsnr) == SnrGe(snr, maxsnr)

\* line 114: snr > maxsnr
best_trace_test(snr, maxsnr) == SnrGt(snr, maxsnr)

\* lines 104-116: best is [maxsnr, maxtrace], maxtrace the index in the
\* stream of the trace object kept (0 for None)
RECURSIVE best_trace(_, _, _, _, _)
best_trace(stream, i, best, noise_win, signal_win) ==
    IF i > Len(stream) THEN best
    ELSE LET snr == TraceSnr(stream[i], noise_win, signal_win)
         IN best_trace(stream, i + 1,
                       IF best_trace_test(snr, best.maxsnr)
                       THEN [maxsnr |-> snr, maxtrace |-> i]
                       ELSE best,
                       noise_win, signal_win)

\* the loop body with `res[key] = None` in the place of the raise
select_one_noraise(acc, key, noise_win, signal_win, min_snr) ==
    LET stream == acc.waves[key]
        best == best_trace(stream, 1, [maxsnr |-> SnrFin(0, 1), maxtrace |-> 0],
                           noise_win, signal_win)
    IN IF best.maxtrace # 0
       THEN LET normalized == Normalize(stream[best.maxtrace])
            IN [acc EXCEPT
                  !.waves[key][best.maxtrace] = normalized,
                  !.res = [k \in DOMAIN acc.res \cup {key} |->
                             IF k = key
                             THEN (IF SnrLt(best.maxsnr, min_snr) THEN None
                                   ELSE Some(normalized))
                             ELSE acc.res[k]]]
       ELSE [acc EXCEPT !.res = [k \in DOMAIN acc.res \cup {key} |->
                                   IF k = key THEN None ELSE acc.res[k]]]

\* lines 103-125: one iteration of the loop for `key`; maxtrace is an
\* element of the caller's stream, so normalize() acts on acc.waves
select_one(acc, key, noise_win, signal_win, min_snr) ==
    LET stream == acc.waves[key]
        best == best_trace(stream, 1, [maxsnr |-> SnrFin(0, 1), maxtrace |-> 0],
                           noise_win, signal_win)
    IN IF best.maxtrace # 0
       THEN LET normalized == Normalize(stream[best.maxtrace])
            IN [acc EXCEPT
                  !.waves[key][best.maxtrace] = normalized,
                  !.res = [k \in DOMAIN acc.res \cup {key} |->
                             IF k = key
                             THEN (IF SnrLt(best.maxsnr, min_snr) THEN None
                                   ELSE Some(normalized))
                             ELSE acc.res[k]]]
       ELSE [acc EXCEPT !.err = Exc("leads to snr==0", key)]

RECURSIVE select_loop(_, _, _, _, _, _)
select_loop(acc, keys, i, noise_win, signal_win, min_snr) ==
    IF i > Len(keys) \/ acc.err # None THEN acc
    ELSE select_loop(select_one(acc, keys[i], noise_win, signal_win, min_snr),
                     keys, i + 1, noise_win, signal_win, min_snr)

\* [ret, err, waves]: the returned dict (None when it raises), the exception,
\* and the input dict after the call
select_based_on_snr(waves, noise_win, signal_win, min_snr) ==
    LET acc == select_loop([res |-> EmptyDict, err |-> None, waves |-> waves],
                           KeysOf(waves), 1, noise_win, signal_win, min_snr)
    IN [ret |-> IF acc.err = None THEN Some(acc.res) ELSE None,
        err |-> acc.err, waves |-> acc.waves]

(***************************************************************************)
(* Specification of the SNR Selector on its own: any dict of processed     *)
(* streams over a subset of the keys, any of the thresholds.               *)
(***************************************************************************)
\* a dict given to the selector holds at most MaxSnrTraces traces
MaxSnrTraces == 2

\* sample amplitudes and thresholds of the selector's inputs
MaxAmp == 2
Amps == 0..MaxAmp
MinSnrs == {1, 4, 5}
\* (noise_win, signal_win): the first sample against the second, or the
\* first two samples against the second
SnrWindows == {<< <<0, 0>>, <<1, 1>> >>, << <<0, 1>>, <<1, 1>> >>}

\* processed traces of two samples, starting at time 1
SnrTraces == {Trace("post_process", 1, <<a, b>>) : a \in Amps, b \in Amps}

InitSnr ==
    /\ disk = NoDisk
    /\ infos_group_by_station = EmptyDict
    /\ pc = "snr_ready"
    /\ \E d \in DictsFrom(1, MaxSnrTraces, SnrTraces) :
          waveforms_with_stream = Some(d)
    /\ \E m \in MinSnrs, w \in SnrWindows :
          config = [noise_win |-> w[1], signal_win |-> w[2], min_snr |-> m]
    /\ data_infos = EmptyDict
    /\ raw_waveforms = EmptyDict
    /\ reference_times = None
    /\ sliced_waveforms = None
    /\ ps_info = EmptyDict
    /\ waveforms = None
    /\ err = None
    /\ old = None

CallSelect ==
    /\ UNCHANGED io
    /\ pc = "snr_ready"
    /\ \E r \in {select_based_on_snr(waveforms_with_stream.val, config.noise_win,
                                    config.signal_win, config.min_snr)} :
          /\ waveforms' = r.ret
          /\ err' = r.err
          /\ waveforms_with_stream' = Some(r.waves)
    /\ pc' = "snr_done"
    /\ old' = Some([waves |-> waveforms_with_stream.val])
    /\ UNCHANGED <<config, data_infos, raw_waveforms, reference_times,
                   sliced_waveforms, ps_info>>

NextSnr == CallSelect

SpecSnr == InitSnr /\ [][NextSnr]_vars

\* the SNR of channel i of the stream the call was given for `key`
OldSnr(key, i) ==
    TraceSnr(old.val.waves[key][i], config.noise_win, config.signal_win)

\* channel i has an SNR > 0
Positive(key, i) == SnrGt(OldSnr(key, i), SnrFin(0, 1))

HasPositive(key) == \E i \in 1..Len(old.val.waves[key]) : Positive(key, i)

\* channel i has the greatest SNR of the stream and is the first to have it
IsBest(key, i) ==
    /\ Positive(key, i)
    /\ \A j \in 1..Len(old.val.waves[key]) :
          /\ ~SnrGt(OldSnr(key, j), OldSnr(key, i))
          /\ j < i => SnrGt(OldSnr(key, i), OldSnr(key, j))
                      \/ OldSnr(key, j).kind = "nan"

\* C2: when every key has a channel of SNR > 0 the call returns a dict over
\* exactly the input keys; each key's best channel is the one of the
\* greatest SNR, the first in stream order on ties; the key maps to that
\* channel (normalized) when its SNR >= min_snr and to None when it is
\* below min_snr.
C2_BestChannel ==
    (pc = "snr_done" /\ \A key \in DOMAIN old.val.waves : HasPositive(key)) =>
        /\ err = None
        /\ waveforms # None
        /\ DOMAIN waveforms.val = DOMAIN old.val.waves
        /\ \A key \in DOMAIN old.val.waves :
              \A i \in 1..Len(old.val.waves[key]) :
                 IsBest(key, i) =>
                    waveforms.val[key] =
                       IF SnrLt(OldSnr(key, i), config.min_snr) THEN None
                       ELSE Some(Normalize(old.val.waves[key][i]))

\* the two channels of a key tie on the greatest SNR with different
\* samples, and the first one is returned
C2_Witness ==
    /\ pc = "snr_done"
    /\ err = None
    /\ \E k1 \in DOMAIN old.val.waves :
          /\ Len(old.val.waves[k1]) = 2
          /\ IsBest(k1, 1)
          /\ ~SnrGt(OldSnr(k1, 1), OldSnr(k1, 2))
          /\ OldSnr(k1, 2).kind = "fin"
          /\ old.val.waves[k1][1].data # old.val.waves[k1][2].data
          /\ waveforms.val[k1] = Some(Normalize(old.val.waves[k1][1]))

\* two keys, one kept and one below the threshold: both are in the result
C2_WitnessNull ==
    /\ pc = "snr_done"
    /\ err = None
    /\ DOMAIN waveforms.val = Keys
    /\ waveforms.val[KeyOrder[1]] = None
    /\ waveforms.val[KeyOrder[2]] # None

\* the best channel is the second one, and it is kept
C2_WitnessSecond ==
    /\ pc = "snr_done"
    /\ err = None
    /\ \E key \in DOMAIN old.val.waves :
          /\ Len(old.val.waves[key]) = 2
          /\ IsBest(key, 2)
          /\ Positive(key, 1)
          /\ waveforms.val[key] = Some(Normalize(old.val.waves[key][2]))

\* C5: the call raises for a key exactly when none of that key's channels
\* has an SNR > 0 (a stream of zeros included), and then it returns no
\* dict; the key named is the first such key, never a key with a channel
\* of positive SNR.
C5_ZeroSnrRaises ==
    pc = "snr_done" =>
        /\ (\E key \in DOMAIN old.val.waves : ~HasPositive(key)) => err # None
        /\ err # None =>
              /\ waveforms = None
              /\ err.val.kind = "leads to snr==0"
              /\ err.val.key \in DOMAIN old.val.waves
              /\ ~HasPositive(err.val.key)

\* the second key's stream is all zeros, the first key has a good channel
C5_Witness ==
    /\ pc = "snr_done"
    /\ DOMAIN old.val.waves = Keys
    /\ HasPositive(KeyOrder[1])
    /\ \A i \in 1..Len(old.val.waves[KeyOrder[2]]) :
          old.val.waves[KeyOrder[2]][i].data = <<0, 0>>
    /\ err # None
    /\ err.val.key = KeyOrder[2]
    /\ waveforms = None

\* a key whose channels have signal but an SNR of 0 / x = 0
C5_WitnessZero ==
    /\ pc = "snr_done"
    /\ err # None
    /\ \E i \in 1..Len(old.val.waves[err.val.key]) :
          /\ OldSnr(err.val.key, i).kind = "fin"
          /\ OldSnr(err.val.key, i).num = 0

(***************************************************************************)
(* load_data.py: load_ps_info                                              *)
(* A row of the ps-filter file is [name, s, e, snr, index]; name is the    *)
(* text of column 0 as a sequence of tokens, "." being a token of its own. *)
(***************************************************************************)
\* str.split("."): the tokens between the dots, each run joined to one part
RECURSIVE SplitDot(_, _, _)
SplitDot(name, i, part) ==
    IF i > Len(name) THEN <<part>>
    ELSE IF name[i] = "." THEN <<part>> \o SplitDot(name, i + 1, <<>>)
    ELSE SplitDot(name, i + 1, part \o <<name[i]>>)

\* lines 90-97: the loop over the rows; a later row of a key replaces the
\* earlier one; a name that does not split in two raises ValueError
RECURSIVE load_ps_rows(_, _, _)
load_ps_rows(data, i, res) ==
    IF i > Len(data) THEN [ret |-> Some(res), err |-> None]
    ELSE LET row == data[i]
             parts == SplitDot(row.name, 1, <<>>)
         IN IF Len(parts) # 2 \/ Len(parts[1]) # 1 \/ Len(parts[2]) # 1
            THEN [ret |-> None, err |-> Exc("ValueError", NoKey)]
            ELSE LET key == <<parts[1][1], parts[2][1]>>
                     info == [s |-> row.s, e |-> row.e, snr |-> row.snr,
                              index |-> row.index]
                 IN load_ps_rows(data, i + 1,
                       [k \in DOMAIN res \cup {key} |->
                           IF k = key THEN info ELSE res[k]])

load_ps_info(data) == load_ps_rows(data, 1, EmptyDict)

(***************************************************************************)
(* process_waveform.py: select_based_on_snr_ps                             *)
(***************************************************************************)
\* stream[index] of Python: 0 is the first trace, -1 the last one; the
\* result is the position in 1..Len(stream), or 0 for IndexError
PyIndex(stream, index) ==
    IF 0 <= index /\ index < Len(stream) THEN index + 1
    ELSE IF index < 0 /\ -index <= Len(stream) THEN Len(stream) + index + 1
    ELSE 0

\* the loop body with `res[key] = None` in the place of `continue`
select_ps_one_null(acc, key, info, min_snr) ==
    IF key \notin DOMAIN acc.waves
    THEN [acc EXCEPT !.err = Exc("KeyError", key)]
    ELSE LET stream == acc.waves[key]
             at == PyIndex(stream, info[key].index)
         IN IF info[key].snr < min_snr
            THEN [acc EXCEPT !.res = [k \in DOMAIN acc.res \cup {key} |->
                                        IF k = key THEN None ELSE acc.res[k]]]
            ELSE IF at = 0
            THEN [acc EXCEPT !.err = Exc("IndexError", key)]
            ELSE LET tr == Normalize(stream[at])
                 IN [acc EXCEPT
                       !.waves[key][at] = tr,
                       !.res = [k \in DOMAIN acc.res \cup {key} |->
                                  IF k = key THEN Some(tr) ELSE acc.res[k]]]

\* lines 146-151: one iteration of the loop for `key`; an entry of the
\* result dict is Some(trace) (the dict never holds None)
select_ps_one(acc, key, info, min_snr) ==
    IF key \notin DOMAIN acc.waves
    THEN [acc EXCEPT !.err = Exc("KeyError", key)]
    ELSE LET stream == acc.waves[key]
             at == PyIndex(stream, info[key].index)
         IN IF info[key].snr < min_snr THEN acc
            ELSE IF at = 0
            THEN [acc EXCEPT !.err = Exc("IndexError", key)]
            ELSE LET tr == Normalize(stream[at])
                 IN [acc EXCEPT
                       !.waves[key][at] = tr,
                       !.res = [k \in DOMAIN acc.res \cup {key} |->
                                  IF k = key THEN Some(tr) ELSE acc.res[k]]]

RECURSIVE select_ps_loop(_, _, _, _, _)
select_ps_loop(acc, keys, i, info, min_snr) ==
    IF i > Len(keys) \/ acc.err # None THEN acc
    ELSE select_ps_loop(select_ps_one(acc, keys[i], info, min_snr),
                        keys, i + 1, info, min_snr)

select_based_on_snr_ps(waves, info, min_snr) ==
    LET acc == select_ps_loop([res |-> EmptyDict, err |-> None, waves |-> waves],
                              KeysOf(info), 1, info, min_snr)
    IN [ret |-> IF acc.err = None THEN Some(acc.res) ELSE None,
        err |-> acc.err, waves |-> acc.waves]

(***************************************************************************)
(* Specification of the PS selector on its own: a ps-filter file of up to  *)
(* MaxRows rows, loaded by load_ps_info, and a dict of processed streams   *)
(* over the keys of the table (what post_process_ps returns).              *)
(***************************************************************************)
MaxRows == 2
\* a stream given to the PS selector holds 1..MaxPsChan traces; the index
\* column of the table is drawn from -1..MaxPsChan
MaxPsChan == 2

PsSnrs == {2, 3}
PsMinSnrs == {2, 3}

\* the rows "event.station s e snr index", and one row whose name holds a
\* network code as well
PsRows ==
    {[name |-> <<k[1], ".", k[2]>>, s |-> 1, e |-> 2, snr |-> x, index |-> n] :
        k \in Keys, x \in PsSnrs, n \in (-1)..MaxPsChan}
    \cup {[name |-> <<"e1", ".", "YL", ".", "FONI">>, s |-> 1, e |-> 2,
           snr |-> 3, index |-> 0]}

PsFiles == UNION {[1..n -> PsRows] : n \in 0..MaxRows}

\* channel i of a processed stream holds the samples i, i + 1
PsStream(n) == [i \in 1..n |-> Trace("post_process_ps", 1, <<i, i + 1>>)]

InitSnrPs ==
    /\ disk = NoDisk
    /\ infos_group_by_station = EmptyDict
    /\ pc = "ps_file"
    /\ \E f \in PsFiles : old = Some([file |-> f])
    /\ \E m \in PsMinSnrs : config = [min_snr |-> m]
    /\ ps_info = EmptyDict
    /\ waveforms_with_stream = None
    /\ data_infos = EmptyDict
    /\ raw_waveforms = EmptyDict
    /\ reference_times = None
    /\ sliced_waveforms = None
    /\ waveforms = None
    /\ err = None

\* load_ps_info on the file, then post_process_ps hands over one stream for
\* each key of the table
LoadPsInfo ==
    /\ UNCHANGED io
    /\ pc = "ps_file"
    /\ \E r \in {load_ps_info(old.val.file)} :
          IF r.err # None
          THEN /\ err' = r.err
               /\ pc' = "ps_failed"
               /\ UNCHANGED <<ps_info, waveforms_with_stream, old>>
          ELSE /\ ps_info' = r.ret.val
               /\ \E d \in [DOMAIN r.ret.val ->
                              {PsStream(n) : n \in 1..MaxPsChan}] :
                     /\ waveforms_with_stream' = Some(d)
                     /\ old' = Some([file |-> old.val.file, waves |-> d])
               /\ pc' = "ps_ready"
               /\ err' = err
    /\ UNCHANGED <<config, data_infos, raw_waveforms, reference_times,
                   sliced_waveforms, waveforms>>

CallSelectPs ==
    /\ UNCHANGED io
    /\ pc = "ps_ready"
    /\ \E r \in {select_based_on_snr_ps(waveforms_with_stream.val, ps_info,
                                        config.min_snr)} :
          /\ waveforms' = r.ret
          /\ err' = r.err
          /\ waveforms_with_stream' = Some(r.waves)
    /\ pc' = "ps_done"
    /\ UNCHANGED <<config, data_infos, raw_waveforms, reference_times,
                   sliced_waveforms, ps_info, old>>

NextSnrPs == LoadPsInfo \/ CallSelectPs

SpecSnrPs == InitSnrPs /\ [][NextSnrPs]_vars

\* the last row of the file for `key`
LastRow(key) ==
    LET f == old.val.file
        at == CHOOSE i \in 1..Len(f) :
                 /\ f[i].name = <<key[1], ".", key[2]>>
                 /\ \A j \in (i + 1)..Len(f) : f[j].name # f[i].name
    IN f[at]

FileKeys == {<<old.val.file[i].name[1], old.val.file[i].name[3]>> :
                i \in 1..Len(old.val.file)}

\* the channel of the stream the row's index names (Python indexing)
RowChannel(key) ==
    LET stream == old.val.waves[key]
        index == LastRow(key).index
    IN IF index >= 0 THEN stream[index + 1] ELSE stream[Len(stream) + index + 1]

RowInRange(key) ==
    /\ LastRow(key).index < Len(old.val.waves[key])
    /\ -LastRow(key).index <= Len(old.val.waves[key])

\* C7: the dict the PS selector returns has exactly the keys of the table
\* whose snr >= min_snr, each mapped to the channel of its stream at the
\* table's index (normalized); a key below the threshold is absent and no
\* key maps to None.  It returns whenever every kept key's index is in range.
C7_PsKeys ==
    pc = "ps_done" =>
        /\ (\A key \in FileKeys :
               LastRow(key).snr >= config.min_snr => RowInRange(key))
           => err = None
        /\ err = None =>
              /\ waveforms # None
              /\ DOMAIN waveforms.val =
                    {key \in FileKeys : LastRow(key).snr >= config.min_snr}
              /\ \A key \in DOMAIN waveforms.val :
                    /\ waveforms.val[key] # None
                    /\ waveforms.val[key] = Some(Normalize(RowChannel(key)))

\* a table with a key below the threshold and a kept key whose index names
\* the second channel
C7_Witness ==
    /\ pc = "ps_done"
    /\ err = None
    /\ DOMAIN ps_info = Keys
    /\ \E k1 \in Keys, k2 \in Keys :
          /\ ps_info[k1].snr < config.min_snr
          /\ k1 \notin DOMAIN waveforms.val
          /\ ps_info[k2].index = 1
          /\ k2 \in DOMAIN waveforms.val
          /\ Len(old.val.waves[k2]) = 2
          /\ waveforms.val[k2] = Some(Normalize(old.val.waves[k2][2]))

\* a key with two rows: the later row decides
C7_WitnessTwoRows ==
    /\ pc = "ps_done"
    /\ err = None
    /\ Len(old.val.file) = 2
    /\ old.val.file[1].name = old.val.file[2].name
    /\ old.val.file[1].snr >= config.min_snr
    /\ old.val.file[2].snr < config.min_snr
    /\ DOMAIN waveforms.val = {}

(***************************************************************************)
(* process_waveform.py: post_process, post_process_ps                      *)
(* The amplitudes are the rationals data[i] / scale; every step keeps the  *)
(* pair in lowest terms.                                                   *)
(***************************************************************************)
RECURSIVE GCD(_, _)
GCD(a, b) == IF b = 0 THEN a ELSE GCD(b, a % b)

RECURSIVE GCDAll(_, _)
GCDAll(data, g) ==
    IF Len(data) = 0 THEN g ELSE GCDAll(Tail(data), GCD(Abs(data[1]), g))

RECURSIVE Sum(_)
Sum(data) == IF Len(data) = 0 THEN 0 ELSE data[1] + Sum(Tail(data))

\* the trace with the amplitudes data[i] / scale, in lowest terms
Amplitudes(trace, data, scale) ==
    LET g == GCDAll(data, scale)
    IN [trace EXCEPT !.data = [i \in 1..Len(data) |-> data[i] \div g],
                     !.scale = scale \div g]

\* detrend("demean"): x[i] - mean(x)
Demean(trace) ==
    LET x == trace.data
        n == Len(x)
    IN IF n = 0 THEN trace
       ELSE Amplitudes(trace, [i \in 1..n |-> n * x[i] - Sum(x)], n * trace.scale)

\* detrend("linear"): x[i] - (a + b * t[i]), a + b * t the least-squares
\* line through the samples, t[i] = i - 1
DetrendLinear(trace) ==
    LET x == trace.data
        n == Len(x)
        S1 == Sum([i \in 1..n |-> i - 1])
        S2 == Sum([i \in 1..n |-> (i - 1) * (i - 1)])
        Sx == Sum(x)
        Stx == Sum([i \in 1..n |-> (i - 1) * x[i]])
        D == n * S2 - S1 * S1
        B == n * Stx - S1 * Sx
    IN IF n = 0 THEN trace
       ELSE IF n = 1 THEN [trace EXCEPT !.data = <<0>>]
       ELSE Amplitudes(trace,
                [i \in 1..n |-> n * D * x[i] - (D * Sx - B * S1) - n * B * (i - 1)],
                n * D * trace.scale)

\* taper(max_percentage=0.05, type="hann"): the window is int(0.05 * npts)
\* samples long at each end; the traces of the model hold fewer than 20
\* samples, so the window is empty and every sample is multiplied by 1
Taper(trace) == trace

\* interpolate(sampling_rate): the traces of the model are sampled at the
\* target rate already, the new samples are the old ones
Interpolate(trace) == trace

\* filter("bandpass", freqmin, freqmax, corners=2, zerophase=True): the
\* filter's arithmetic is obspy's; the trace records the band applied
BandPass(trace, freqmin, freqmax) == [trace EXCEPT !.band = <<freqmin, freqmax>>]

\* lines 77-83 (132-138): the copy of a stream, processed in place
ProcessStream(stream, site, freqmin, freqmax) ==
    LET copy == StreamCopy(stream, site)
    IN [i \in 1..Len(copy) |->
          BandPass(Interpolate(Taper(DetrendLinear(Demean(copy[i])))),
                   freqmin, freqmax)]

post_process(waves, freqmin, freqmax) ==
    [ret |-> Some([key \in DOMAIN waves |->
                     ProcessStream(waves[key], "post_process", freqmin, freqmax)]),
     err |-> None, waves |-> waves]

\* lines 131-139: the loop runs over the keys of the table; waves[key]
\* raises KeyError for a key the sliced dict does not hold
RECURSIVE post_process_ps_loop(_, _, _, _)
post_process_ps_loop(acc, keys, i, info) ==
    IF i > Len(keys) \/ acc.err # None THEN acc
    ELSE LET key == keys[i]
         IN post_process_ps_loop(
               IF key \notin DOMAIN acc.waves
               THEN [acc EXCEPT !.err = Exc("KeyError", key)]
               ELSE [acc EXCEPT !.res = [k \in DOMAIN acc.res \cup {key} |->
                        IF k = key
                        THEN ProcessStream(acc.waves[key], "post_process_ps",
                                           info[key].s, info[key].e)
                        ELSE acc.res[k]]],
               keys, i + 1, info)

post_process_ps(waves, info) ==
    LET acc == post_process_ps_loop(
                  [res |-> EmptyDict, err |-> None, waves |-> waves],
                  KeysOf(info), 1, info)
    IN [ret |-> IF acc.err = None THEN Some(acc.res) ELSE None,
        err |-> acc.err, waves |-> acc.waves]

(***************************************************************************)
(* load_data.py: load_data_info, load_waveforms                            *)
(* A row of the csv file is [EVENT_ID, STATION, ORIGIN_TIME, PTIME, STIME, *)
(* PSTIME, DIST]; a NaN cell is None; DIST stands for the four coordinate  *)
(* columns, locations2degrees of them being the distance.                  *)
(***************************************************************************)
\* lines 48-53: origin_time + row[...] if not NaN else None
ArrivalTime(origin_time, cell) ==
    IF cell = None THEN None ELSE Some(origin_time + cell.val)

\* lines 41-65: a later row of a key replaces the earlier one
RECURSIVE load_data_rows(_, _, _)
load_data_rows(df, idx, res) ==
    IF idx > Len(df) THEN res
    ELSE LET row == df[idx]
             key == <<row.EVENT_ID, row.STATION>>
             info == [event_id |-> row.EVENT_ID, station |-> row.STATION,
                      origin_time |-> row.ORIGIN_TIME,
                      ptime |-> ArrivalTime(row.ORIGIN_TIME, row.PTIME),
                      stime |-> ArrivalTime(row.ORIGIN_TIME, row.STIME),
                      pstime |-> ArrivalTime(row.ORIGIN_TIME, row.PSTIME),
                      dist |-> row.DIST]
         IN load_data_rows(df, idx + 1,
               [k \in DOMAIN res \cup {key} |-> IF k = key THEN info ELSE res[k]])

load_data_info(df) == load_data_rows(df, 1, EmptyDict)

\* lines 79-84: the raw recording of every key, KeyError for a key the
\* store does not hold
load_waveforms(ds, keys) ==
    IF \E i \in 1..Len(keys) : keys[i] \notin DOMAIN ds
    THEN [ret |-> None,
          err |-> Exc("KeyError",
                      keys[CHOOSE i \in 1..Len(keys) :
                              /\ keys[i] \notin DOMAIN ds
                              /\ \A j \in 1..(i - 1) : keys[j] \in DOMAIN ds])]
    ELSE [ret |-> Some([key \in {keys[i] : i \in 1..Len(keys)} |-> ds[key]]),
          err |-> None]

(***************************************************************************)
(* plot_p_aligned_by_p.py, plot_rank_by_index.py: main                     *)
(* config holds the module constants of the script that runs; a time unit  *)
(* of the model is one sample, so the windows are a few samples long.      *)
(***************************************************************************)
\* lines 99-104 (110-115): the records of the keys of `waveforms`, in the
\* order of data_infos.items(), one list per station
RECURSIVE GroupFrom(_, _, _, _)
GroupFrom(infos, traces, keys, station) ==
    IF Len(keys) = 0 THEN <<>>
    ELSE (IF keys[1] \in DOMAIN traces /\ infos[keys[1]].station = station
          THEN <<infos[keys[1]]>> ELSE <<>>)
         \o GroupFrom(infos, traces, Tail(keys), station)

\* list.sort(key=lambda each: each.dist): stable, ascending
RECURSIVE InsertByDist(_, _)
InsertByDist(sorted, info) ==
    IF Len(sorted) = 0 THEN <<info>>
    ELSE IF sorted[Len(sorted)].dist <= info.dist THEN Append(sorted, info)
    ELSE Append(InsertByDist(SubSeq(sorted, 1, Len(sorted) - 1), info),
                sorted[Len(sorted)])

RECURSIVE SortByDist(_, _)
SortByDist(list, sorted) ==
    IF Len(list) = 0 THEN sorted
    ELSE SortByDist(Tail(list), InsertByDist(sorted, list[1]))

\* the rows that a csv file may hold beyond those of KeyOrder: a third event
\* at the same station and an event at a second station
GroupKeyOrder == KeyOrder \o << <<"e3", "FONI">>, <<"e1", "VAVP">> >>
GroupKeys == {GroupKeyOrder[i] : i \in 1..Len(GroupKeyOrder)}

\* the keys of data_infos.items(), in insertion (csv row) order
RECURSIVE ItemKeysFrom(_, _)
ItemKeysFrom(d, i) ==
    IF i > Len(GroupKeyOrder) THEN <<>>
    ELSE IF GroupKeyOrder[i] \in DOMAIN d
         THEN <<GroupKeyOrder[i]>> \o ItemKeysFrom(d, i + 1)
         ELSE ItemKeysFrom(d, i + 1)
ItemKeys(d) == ItemKeysFrom(d, 1)

\* the grouping without the sort of lines 103-104 (114-115)
group_by_station_unsorted(infos, traces) ==
    [station \in {infos[key].station : key \in DOMAIN infos \cap DOMAIN traces} |->
        GroupFrom(infos, traces, ItemKeys(infos), station)]

group_by_station(infos, traces) ==
    [station \in {infos[key].station : key \in DOMAIN infos \cap DOMAIN traces} |->
        SortByDist(GroupFrom(infos, traces, ItemKeys(infos), station), <<>>)]

(***************************************************************************)
(* Specification of the grouping: any arrival table over GroupKeyOrder,    *)
(* any processed-trace map over the keys that have a reference time.       *)
(***************************************************************************)
\* distances are drawn from 1..MaxDist
MaxDist == 3

\* what one key contributes: no csv row; a row without a P time (the key is
\* dropped by the slicer); a row with a P time whose key is absent from the
\* processed-trace map (dropped on the PS path), null in it or a trace in it
GroupCases ==
    {[row |-> FALSE]}
    \cup {[row |-> TRUE, dist |-> d, ptime |-> None, entry |-> "absent"] :
            d \in 1..MaxDist}
    \cup {[row |-> TRUE, dist |-> d, ptime |-> Some(MaxTime), entry |-> e] :
            d \in 1..MaxDist, e \in {"absent", "null", "trace"}}

GroupInfos(c) ==
    [key \in {k \in GroupKeys : c[k].row} |->
        DataInfo(key, c[key].ptime, None, None, c[key].dist)]

GroupTraces(c) ==
    [key \in {k \in GroupKeys : c[k].row /\ c[k].entry # "absent"} |->
        IF c[key].entry = "null" THEN None
        ELSE Some(Normalize(Trace("select", 1, <<1, 2>>)))]

InitGroup ==
    /\ pc = "group_ready"
    /\ \E c \in [GroupKeys -> GroupCases] :
          /\ data_infos = GroupInfos(c)
          /\ waveforms = Some(GroupTraces(c))
    /\ config = [driver |-> "plot_rank_by_index"]
    /\ disk = NoDisk
    /\ infos_group_by_station = EmptyDict
    /\ raw_waveforms = EmptyDict
    /\ reference_times = None
    /\ sliced_waveforms = None
    /\ ps_info = EmptyDict
    /\ waveforms_with_stream = None
    /\ err = None
    /\ old = None

\* lines 99-104 (110-115) of main
CallGroup ==
    /\ pc = "group_ready"
    /\ infos_group_by_station' = group_by_station(data_infos, waveforms.val)
    /\ pc' = "group_done"
    /\ UNCHANGED <<config, data_infos, raw_waveforms, reference_times,
                   sliced_waveforms, ps_info, waveforms_with_stream, waveforms,
                   err, old, disk>>

NextGroup == CallGroup

SpecGroup == InitGroup /\ [][NextGroup]_vars

\* the grouping has been built from data_infos and waveforms
Grouped == pc \in {"group_done", "plot"}

\* the keys of the csv table that are keys of the processed-trace map
Surviving(station) ==
    {k \in DOMAIN data_infos \cap DOMAIN waveforms.val :
        data_infos[k].station = station}

KeyOfInfo(info) == <<info.event_id, info.station>>

\* C11: once the grouping is built, its stations are those of the keys of
\* the processed-trace map; the list of a station holds, once each, exactly
\* the records of that station whose key is in the processed-trace map (null
\* entries included, dropped keys excluded), in ascending order of distance.
C11_GroupSortedByDist ==
    Grouped =>
        /\ DOMAIN infos_group_by_station =
              {data_infos[k].station :
                  k \in DOMAIN data_infos \cap DOMAIN waveforms.val}
        /\ \A station \in DOMAIN infos_group_by_station :
              LET list == infos_group_by_station[station] IN
              /\ Len(list) = Cardinality(Surviving(station))
              /\ \A i \in 1..Len(list) :
                    /\ KeyOfInfo(list[i]) \in Surviving(station)
                    /\ list[i] = data_infos[KeyOfInfo(list[i])]
              /\ \A k \in Surviving(station) :
                    \E i \in 1..Len(list) : KeyOfInfo(list[i]) = k
              /\ \A i \in 1..Len(list), j \in 1..Len(list) :
                    i < j => list[i].dist <= list[j].dist

\* C11: the scenario of three keys of one station, the first without a P
\* time, the second with a trace and the third null and nearer than the
\* second: the group holds the third record and then the second
C11_Witness ==
    /\ pc = "group_done"
    /\ DOMAIN data_infos = {k \in GroupKeys : k[2] = "FONI"}
    /\ data_infos[GroupKeyOrder[1]].ptime = None
    /\ DOMAIN waveforms.val = {GroupKeyOrder[2], GroupKeyOrder[3]}
    /\ waveforms.val[GroupKeyOrder[2]] # None
    /\ waveforms.val[GroupKeyOrder[3]] = None
    /\ data_infos[GroupKeyOrder[3]].dist < data_infos[GroupKeyOrder[2]].dist
    /\ infos_group_by_station =
          ("FONI" :> << data_infos[GroupKeyOrder[3]],
                       data_infos[GroupKeyOrder[2]] >>)

\* C11: two stations, each with its own list
C11_WitnessTwoStations ==
    /\ pc = "group_done"
    /\ DOMAIN infos_group_by_station = {"FONI", "VAVP"}
    /\ Len(infos_group_by_station["FONI"]) = 3
    /\ Len(infos_group_by_station["VAVP"]) = 1

\* the script uses the generic path unless its PHASE is "PS"
GenericPath(c) == c.PHASE # "PS"

(***************************************************************************)
(* Specification of the drivers: the data files are chosen once; the       *)
(* script is run any number of times, its constants edited between runs.   *)
(***************************************************************************)
\* the constants of plot_p_aligned_by_p.py (its reference phase is the
\* literal "P" and it has the generic path only) and of
\* plot_rank_by_index.py; MIN_SNR is 10 in the one and 2 in the other
ConfigsOf(driver) ==
    {[driver |-> driver, PHASE |-> ph, REF_PHASE |-> ref, MIN_SNR |-> m,
      LEFT_WIN |-> 1, RIGHT_WIN |-> 2, FREQMIN |-> 1, FREQMAX |-> 8,
      NOISE_WIN |-> <<0, 1>>, SIGNAL_WIN |-> <<1, 2>>] :
        ph \in IF driver = "plot_rank_by_index" THEN {"P", "PS"} ELSE {"P"},
        ref \in IF driver = "plot_rank_by_index" THEN {"P", "ps"} ELSE {"P"},
        m \in {2, 10}}

Drivers == {"plot_p_aligned_by_p", "plot_rank_by_index"}

\* the csv rows: one row for each key, the P pick present or not
CsvFiles ==
    {[i \in 1..Len(KeyOrder) |->
        [EVENT_ID |-> KeyOrder[i][1], STATION |-> KeyOrder[i][2],
         ORIGIN_TIME |-> 0, PTIME |-> p[i], STIME |-> Some(4),
         PSTIME |-> Some(3), DIST |-> Len(KeyOrder) + 1 - i]] :
     p \in [1..Len(KeyOrder) -> {None, Some(2)}]}

\* the raw recordings: six samples from time 0 with a pulse of amplitude a
\* before the P pick and one of amplitude b after it, or a recording that
\* starts at time 2
Recordings ==
    {<<Trace("raw_recording", 0, <<0, ab[1], 0, ab[2], 0, 0>>)>> :
        ab \in {<<1, 3>>, <<1, 1>>, <<0, 0>>}}
    \cup {<<Trace("raw_recording", 2, <<0, 1, 0, 0>>)>>}

AsdfFiles == [Keys -> Recordings]

\* the ps-filter file: no row, a row of snr 3 or a row of snr 12 for each key
PsFilterFiles ==
    {SelectSeq([i \in 1..Len(KeyOrder) |->
                  [name |-> <<KeyOrder[i][1], ".", KeyOrder[i][2]>>, s |-> 1,
                   e |-> 2, snr |-> x[i], index |-> 0]],
               LAMBDA row : row.snr # 0) :
     x \in [1..Len(KeyOrder) -> {0, 3, 12}]}

InitDriver ==
    /\ pc = "idle"
    /\ \E d \in Drivers :
          /\ config \in ConfigsOf(d)
          /\ \E csv \in CsvFiles, asdf \in AsdfFiles,
                ps \in IF d = "plot_rank_by_index" THEN PsFilterFiles ELSE {<<>>} :
                disk = [csv |-> csv, asdf |-> asdf, ps_filter |-> ps,
                        cache |-> None]
    /\ data_infos = EmptyDict
    /\ raw_waveforms = EmptyDict
    /\ reference_times = None
    /\ sliced_waveforms = None
    /\ ps_info = EmptyDict
    /\ waveforms_with_stream = None
    /\ waveforms = None
    /\ err = None
    /\ old = None
    /\ infos_group_by_station = EmptyDict

\* the constants of the script are edited between two runs, after the
\* process of the previous run has ended (normally or with its exception)
EditConfig ==
    /\ pc \in {"idle", "failed"}
    /\ config' \in ConfigsOf(config.driver) \ {config}
    /\ pc' = "idle"
    /\ err' = None
    /\ UNCHANGED <<data_infos, raw_waveforms, reference_times,
                   sliced_waveforms, ps_info, waveforms_with_stream,
                   waveforms, old, disk, infos_group_by_station>>

\* main starts: line 75 (79), os.path.isfile(CACHE_PATH)
StartRun ==
    /\ pc \in {"idle", "failed"}
    /\ pc' = IF disk.cache = None THEN "load_data" ELSE "load_cache"
    /\ data_infos' = EmptyDict
    /\ raw_waveforms' = EmptyDict
    /\ reference_times' = None
    /\ sliced_waveforms' = None
    /\ ps_info' = EmptyDict
    /\ waveforms_with_stream' = None
    /\ waveforms' = None
    /\ err' = None
    /\ infos_group_by_station' = EmptyDict
    /\ UNCHANGED <<config, old, disk>>

\* lines 77-78 (81-82)
RunLoad ==
    /\ pc = "load_data"
    /\ \E infos \in {load_data_info(disk.csv)} :
          /\ data_infos' = infos
          /\ \E r \in {load_waveforms(disk.asdf, KeysOf(infos))} :
                /\ raw_waveforms' = IF r.err = None THEN r.ret.val ELSE EmptyDict
                /\ err' = r.err
                /\ pc' = IF r.err = None THEN "reference" ELSE "failed"
    /\ UNCHANGED <<config, reference_times, sliced_waveforms, ps_info,
                   waveforms_with_stream, waveforms, old, disk,
                   infos_group_by_station>>

\* line 79 (83)
RunResolve ==
    /\ pc = "reference"
    /\ \E r \in {parepare_reference_time(config.REF_PHASE, data_infos)} :
          /\ reference_times' = r.ret
          /\ err' = r.err
          /\ pc' = IF r.err = None THEN "slice" ELSE "failed"
    /\ UNCHANGED <<config, data_infos, raw_waveforms, sliced_waveforms, ps_info,
                   waveforms_with_stream, waveforms, old, disk,
                   infos_group_by_station>>

\* lines 81-82 (85-86)
RunSlice ==
    /\ pc = "slice"
    /\ \E r \in {slice_waveform(raw_waveforms, reference_times.val,
                                config.LEFT_WIN, config.RIGHT_WIN)} :
          /\ sliced_waveforms' = r.ret
          /\ raw_waveforms' = r.waves
          /\ err' = r.err
          /\ pc' = IF r.err # None THEN "failed"
                   ELSE IF GenericPath(config) THEN "post_process"
                   ELSE "load_ps_info"
    /\ UNCHANGED <<config, data_infos, reference_times, ps_info,
                   waveforms_with_stream, waveforms, old, disk,
                   infos_group_by_station>>

\* lines 83-84 (88-89)
RunPostProcess ==
    /\ pc = "post_process"
    /\ \E r \in {post_process(sliced_waveforms.val, config.FREQMIN,
                              config.FREQMAX)} :
          /\ waveforms_with_stream' = r.ret
          /\ sliced_waveforms' = Some(r.waves)
    /\ pc' = "select"
    /\ UNCHANGED <<config, data_infos, raw_waveforms, reference_times, ps_info,
                   waveforms, err, old, disk, infos_group_by_station>>

\* lines 85-86 (90-91)
RunSelect ==
    /\ pc = "select"
    /\ \E r \in {select_based_on_snr(waveforms_with_stream.val, config.NOISE_WIN,
                                     config.SIGNAL_WIN, config.MIN_SNR)} :
          /\ waveforms' = r.ret
          /\ waveforms_with_stream' = Some(r.waves)
          /\ err' = r.err
          /\ pc' = IF r.err = None THEN "dump" ELSE "failed"
    /\ UNCHANGED <<config, data_infos, raw_waveforms, reference_times,
                   sliced_waveforms, ps_info, old, disk, infos_group_by_station>>

\* plot_rank_by_index.py line 93
RunLoadPsInfo ==
    /\ pc = "load_ps_info"
    /\ \E r \in {load_ps_info(disk.ps_filter)} :
          /\ ps_info' = IF r.err = None THEN r.ret.val ELSE EmptyDict
          /\ err' = r.err
          /\ pc' = IF r.err = None THEN "post_process_ps" ELSE "failed"
    /\ UNCHANGED <<config, data_infos, raw_waveforms, reference_times,
                   sliced_waveforms, waveforms_with_stream, waveforms, old,
                   disk, infos_group_by_station>>

\* plot_rank_by_index.py lines 94-95
RunPostProcessPs ==
    /\ pc = "post_process_ps"
    /\ \E r \in {post_process_ps(sliced_waveforms.val, ps_info)} :
          /\ waveforms_with_stream' = r.ret
          /\ sliced_waveforms' = Some(r.waves)
          /\ err' = r.err
          /\ pc' = IF r.err = None THEN "select_ps" ELSE "failed"
    /\ UNCHANGED <<config, data_infos, raw_waveforms, reference_times, ps_info,
                   waveforms, old, disk, infos_group_by_station>>

\* plot_rank_by_index.py lines 96-97
RunSelectPs ==
    /\ pc = "select_ps"
    /\ \E r \in {select_based_on_snr_ps(waveforms_with_stream.val, ps_info,
                                        config.MIN_SNR)} :
          /\ waveforms' = r.ret
          /\ waveforms_with_stream' = Some(r.waves)
          /\ err' = r.err
          /\ pc' = IF r.err = None THEN "dump" ELSE "failed"
    /\ UNCHANGED <<config, data_infos, raw_waveforms, reference_times,
                   sliced_waveforms, ps_info, old, disk, infos_group_by_station>>

\* lines 87-91 (98-102): pickle.dump of the two-field bundle to CACHE_PATH
RunDump ==
    /\ pc = "dump"
    /\ disk' = [disk EXCEPT !.cache = Some([data_infos |-> data_infos,
                                            waveforms |-> waveforms.val])]
    /\ pc' = "group"
    /\ UNCHANGED <<config, data_infos, raw_waveforms, reference_times,
                   sliced_waveforms, ps_info, waveforms_with_stream, waveforms,
                   err, old, infos_group_by_station>>

\* lines 93-96 (104-107): pickle.load of the bundle
RunLoadCache ==
    /\ pc = "load_cache"
    /\ data_infos' = disk.cache.val.data_infos
    /\ waveforms' = Some(disk.cache.val.waveforms)
    /\ pc' = "group"
    /\ UNCHANGED <<config, raw_waveforms, reference_times, sliced_waveforms,
                   ps_info, waveforms_with_stream, err, old, disk,
                   infos_group_by_station>>

\* lines 99-104 (110-115)
RunGroup ==
    /\ pc = "group"
    /\ infos_group_by_station' = group_by_station(data_infos, waveforms.val)
    /\ pc' = "plot"
    /\ UNCHANGED <<config, data_infos, raw_waveforms, reference_times,
                   sliced_waveforms, ps_info, waveforms_with_stream, waveforms,
                   err, old, disk>>

\* lines 107-109 (118-119): show_array draws the traces of `waveforms`
RunPlot ==
    /\ pc = "plot"
    /\ pc' = "idle"
    /\ UNCHANGED <<config, data_infos, raw_waveforms, reference_times,
                   sliced_waveforms, ps_info, waveforms_with_stream, waveforms,
                   err, old, disk, infos_group_by_station>>

NextDriver ==
    \/ EditConfig
    \/ StartRun
    \/ RunLoad
    \/ RunResolve
    \/ RunSlice
    \/ RunPostProcess
    \/ RunSelect
    \/ RunLoadPsInfo
    \/ RunPostProcessPs
    \/ RunSelectPs
    \/ RunDump
    \/ RunLoadCache
    \/ RunGroup
    \/ RunPlot

SpecDriver == InitDriver /\ [][NextDriver]_vars

\* what lines 77-86 (81-97) of main compute from the data files under the
\* constants c: the processed-trace map, or the exception that ends the run
run_select(c, ps_filter, sliced) ==
    IF GenericPath(c)
    THEN LET r == select_based_on_snr(
                      post_process(sliced, c.FREQMIN, c.FREQMAX).ret.val,
                      c.NOISE_WIN, c.SIGNAL_WIN, c.MIN_SNR)
         IN  [ret |-> r.ret, err |-> r.err]
    ELSE LET info == load_ps_info(ps_filter)
         IN  IF info.err # None
             THEN [ret |-> None, err |-> info.err]
             ELSE LET pp == post_process_ps(sliced, info.ret.val)
                  IN  IF pp.err # None
                      THEN [ret |-> None, err |-> pp.err]
                      ELSE LET r == select_based_on_snr_ps(pp.ret.val,
                                        info.ret.val, c.MIN_SNR)
                           IN  [ret |-> r.ret, err |-> r.err]

run_pipeline(d, c) ==
    LET infos == load_data_info(d.csv)
        raw == load_waveforms(d.asdf, KeysOf(infos))
    IN  IF raw.err # None
        THEN [ret |-> None, err |-> raw.err]
        ELSE LET refs == parepare_reference_time(c.REF_PHASE, infos)
             IN  IF refs.err # None
                 THEN [ret |-> None, err |-> refs.err]
                 ELSE LET sl == slice_waveform(raw.ret.val, refs.ret.val,
                                               c.LEFT_WIN, c.RIGHT_WIN)
                      IN  IF sl.err # None
                          THEN [ret |-> None, err |-> sl.err]
                          ELSE run_select(c, d.ps_filter, sl.ret.val)

\* the run is past the cache test and went through the pipeline
FreshRun == reference_times # None

\* the keys of the csv table whose reference arrival time is missing
MissingRef ==
    {k \in DOMAIN data_infos :
        /\ reference_times # None
        /\ reference_times.val[k] = None}

AllowedFailures ==
    {"ref type must be P, S, or PS.", "has range, but asked", "leads to snr==0"}

\* C6 (as stated): a run of either driver, on the generic or on the PS path,
\* fails only with a bad phase selector, an insufficient waveform coverage or
\* an all-zero SNR; a missing reference arrival time never ends the run.
C6_OnlyThreeFailures ==
    pc = "failed" => err.val.kind \in AllowedFailures

\* C6, the part that holds: on the generic path the three failures are the
\* only ones, and a key with a missing reference time or a low SNR is absent
\* from or null in the processed-trace map of a completed run.
C6_GenericPathCompletes ==
    /\ (pc = "failed" /\ GenericPath(config)) => err.val.kind \in AllowedFailures
    /\ (pc = "dump" /\ GenericPath(config)) =>
          \A k \in MissingRef : k \notin DOMAIN waveforms.val

\* C6: the failing run: the PS path ends with a KeyError on a key of the
\* ps-filter table whose reference arrival time is missing
C6_FailsOnMissingRef ==
    /\ pc = "failed"
    /\ ~GenericPath(config)
    /\ err.val.kind = "KeyError"
    /\ err.val.key \in MissingRef

\* C8 (as stated): the processed-trace map that a run plots equals what the
\* pipeline produces from the data files under the constants of that run.
C8_PlotsPipelineResult ==
    pc = "plot" => Some(waveforms.val) = run_pipeline(disk, config).ret

\* C8, the part that holds: a run that finds no cache file recomputes the
\* maps, plots the result of the pipeline under its own constants and
\* persists it.
C8_FreshRunPlotsPipeline ==
    (pc = "plot" /\ FreshRun) =>
        /\ Some(waveforms.val) = run_pipeline(disk, config).ret
        /\ disk.cache = Some([data_infos |-> data_infos,
                              waveforms |-> waveforms.val])

\* C8: the pipeline is skipped exactly when a file exists at CACHE_PATH,
\* whatever constants it was written under.
C8_SkippedIffCacheExists ==
    /\ pc = "load_cache" => disk.cache # None
    /\ pc = "load_data" => disk.cache = None
    /\ pc \in {"group", "plot"} => (FreshRun <=> raw_waveforms # EmptyDict)

\* C8: the stale run: the cache is plotted and differs from the pipeline's
\* map under the constants of the run
C8_StalePlot ==
    /\ pc = "plot"
    /\ ~FreshRun
    /\ run_pipeline(disk, config).ret # None
    /\ Some(waveforms.val) # run_pipeline(disk, config).ret

(***************************************************************************)
(* The SNR selectors and the streams they are given                        *)
(***************************************************************************)
\* the largest absolute amplitude of a trace is 1 (or the trace is flat)
UnitPeak(trace) ==
    MaxAbs(trace.data) = 0 \/ MaxAbs(trace.data) = trace.scale

\* C12 (as stated, select_based_on_snr): after the call every stream of the
\* input map still holds its channels with their pre-call, un-normalized
\* amplitudes, also for the keys that map to None.
C12_InputAmplitudesKept ==
    pc = "snr_done" => waveforms_with_stream.val = old.val.waves

\* C12 (as stated, select_based_on_snr_ps): after the call every stream of
\* the input map still holds its channels with their pre-call amplitudes.
C12_PsInputAmplitudesKept ==
    pc = "ps_done" => waveforms_with_stream.val = old.val.waves

\* C12, the part that holds for select_based_on_snr: a returned trace has
\* unit peak; it is the trace object of the input stream, not a copy, and
\* the other channels of the input are as they were.
C12_ReturnedIsInputChannel ==
    (pc = "snr_done" /\ err = None) =>
        \A key \in DOMAIN waveforms.val :
            LET before == old.val.waves[key]
                after == waveforms_with_stream.val[key]
            IN /\ Len(after) = Len(before)
               /\ \E i \in 1..Len(before) :
                     /\ IsBest(key, i)
                     /\ after[i] = Normalize(before[i])
                     /\ \A j \in 1..Len(before) : j # i => after[j] = before[j]
                     /\ waveforms.val[key] # None =>
                           /\ waveforms.val[key].val = after[i]
                           /\ waveforms.val[key].val.site = before[i].site
                           /\ UnitPeak(waveforms.val[key].val)

\* C12, the part that holds for select_based_on_snr_ps: a returned trace
\* has unit peak and is the trace object stream[index] of the input.
C12_PsReturnedIsInputChannel ==
    (pc = "ps_done" /\ err = None) =>
        \A key \in DOMAIN waveforms.val :
            \E i \in 1..Len(old.val.waves[key]) :
                /\ waveforms.val[key].val = waveforms_with_stream.val[key][i]
                /\ waveforms.val[key].val = Normalize(old.val.waves[key][i])
                /\ waveforms.val[key].val.site = old.val.waves[key][i].site
                /\ UnitPeak(waveforms.val[key].val)

\* C12: the call returned None for a key and the best channel of the input
\* stream of that key has been normalized
C12_NullKeyNormalized ==
    /\ pc = "snr_done"
    /\ err = None
    /\ \E key \in DOMAIN waveforms.val :
          /\ waveforms.val[key] = None
          /\ waveforms_with_stream.val[key] # old.val.waves[key]

\* C12: the PS selector returned a trace and the input stream has changed
C12_PsInputNormalized ==
    /\ pc = "ps_done"
    /\ err = None
    /\ \E key \in DOMAIN waveforms.val :
          waveforms_with_stream.val[key] # old.val.waves[key]
====
